---- MODULE Spec2Model ----
(***************************************************************************)
(* The download orchestration state machine of TTDownloaderBot             *)
(* (src/tt_downloader_bot.py): a chat command starts a campaign over a     *)
(* queue of channels; per-channel transfers are tracked by                 *)
(* (channel id, remote file name) keys; the campaign suspends on           *)
(* password-protected channels and reports progress to the requester.      *)
(*                                                                         *)
(* One action per TeamTalk callback.  A callback runs to completion, so an *)
(* action contains every helper the callback calls: the helpers are        *)
(* operators from a bot record to a bot record.                            *)
(***************************************************************************)
EXTENDS Integers, Sequences, FiniteSets, TLC

VARIABLES
    \* --- configuration handed to __init__ (never assigned afterwards) ---
    channel_mode,             \* "single" | "manual_list" | "auto_all"
    channels_to_download,     \* manual_list entries, a sequence of [path, password]
    channel_path,             \* path of the base channel
    program,                  \* the source file whose bot runs
    \* --- fields of the bot object ---
    running,
    logged_in,
    channel_id,
    join_cmd_id,
    expected_downloads,       \* keys of the dict (channel id, file) -> local path
    completed_downloads,
    downloads_started,
    download_queue,
    current_channel_id,
    channel_paths,
    channel_pending_counts,
    channel_completed_counts,
    total_completed_files,
    request_user_id,
    request_channel_id,
    request_origin,
    awaiting_password_channel_id,
    \* --- the session client (server side of the connection) ---
    conn,                     \* where the session is in connect/login/join
    protected,                \* server channels flagged bPassword
    list_sizes,               \* sizes a channel's file listing can have
    inflight,                 \* keys of transfers started and not yet terminal
    lingering,                \* keys of ended transfers that still owe a "closed" event
    \* --- observation of one run (history, not read by the bot) ---
    built,                    \* channel ids queued by the accepted trigger, in order
    popped,                   \* channel ids made current since that trigger, in order
    requested,                \* channel ids whose files were listed since that trigger
    skipped,                  \* channel ids skipped at a password prompt since that trigger
    attempts,                 \* channel id -> doRecvFile calls of its last start, and how many failed
    nsent                     \* per reply kind, replies sent since the accepted trigger

vars == << channel_mode, channels_to_download, channel_path, program, running, logged_in,
           channel_id, join_cmd_id, expected_downloads, completed_downloads,
           downloads_started, download_queue, current_channel_id, channel_paths,
           channel_pending_counts, channel_completed_counts, total_completed_files,
           request_user_id, request_channel_id, request_origin,
           awaiting_password_channel_id, conn, protected, list_sizes, inflight,
           lingering, built, popped, requested, skipped, attempts, nsent >>

(***************************************************************************)
(* Bounds of the model.                                                    *)
(***************************************************************************)
MaxEntries == 2     \* longest manual_list configuration
MaxFiles == 2       \* most files a channel lists
MaxLate == 1        \* most ended transfers that still owe a "closed" event
BulkFiles == 5      \* files per channel in the bulk scenario

(***************************************************************************)
(* Values.                                                                 *)
(***************************************************************************)
None == 0                        \* Python None of an Optional[int] field
NOTIFY_EVERY == 10               \* self._notify_every
MyUserID == 3                    \* getMyUserID()
UserIds == {1, 2, MyUserID}
ChanIds == {1, 2}                \* ids of the server's channels
NoOrigin == "none"               \* self._request_origin = None

\* Channel paths of the server; "" and "/x" resolve to no channel.
Paths == {"", "/a", "/b", "/x"}

\* getChannelIDFromPath: the id of the channel at a path, 0 when there is none.
GetChannelIDFromPath(path) ==
    CASE path = "/a" -> 1
      [] path = "/b" -> 2
      [] OTHER -> 0

\* getChannelPath: the path of a channel id.
GetChannelPath(id) ==
    CASE id = 1 -> "/a"
      [] id = 2 -> "/b"
      [] OTHER -> ""

\* f"channel_{chan_id}"
ChannelName(id) ==
    CASE id = 1 -> "channel_1"
      [] id = 2 -> "channel_2"
      [] OTHER -> "channel_0"

\* getServerChannels(): the server's channels in enumeration order.
GetServerChannels == << [nChannelID |-> 1, bPassword |-> 1 \in protected],
                        [nChannelID |-> 2, bPassword |-> 2 \in protected] >>

(***************************************************************************)
(* Message texts.  str.strip() and str.lower() on the texts of the model.  *)
(***************************************************************************)
TextsDownie == {" Pobierz Pliki ", "skip", "next", " Pomin ", " "}

\* The texts sent to the bot of source file p.
TextsOf(p) ==
    IF p = "downie.py" THEN TextsDownie
    ELSE {" Download Files ", "skip", " ", " Secret "}

Texts == TextsOf(program)

Strip(t) ==
    CASE t = " Download Files " -> "Download Files"
      [] t = " Pobierz Pliki " -> "Pobierz Pliki"
      [] t = " Pomin " -> "Pomin"
      [] t = " Next" -> "Next"
      [] t = " " -> ""
      [] t = " Secret " -> "Secret"
      [] OTHER -> t

Lower(t) ==
    CASE t = "Download Files" -> "download files"
      [] t = "Pobierz Pliki" -> "pobierz pliki"
      [] t = "Pomin" -> "pomin"
      [] t = "Next" -> "next"
      [] t = "Secret" -> "secret"
      [] OTHER -> t

\* TextMessage objects the session can deliver.
MessagesOf(p) ==
    [type : {"user"}, from : UserIds, to : {MyUserID}, chan : {0}, text : TextsOf(p)]
    \cup [type : {"user"}, from : {2}, to : {1}, chan : {0}, text : TextsOf(p)]
    \cup [type : {"channel"}, from : {1}, to : {0}, chan : {0, 1, 2}, text : TextsOf(p)]
    \cup [type : {"channel"}, from : {MyUserID}, to : {0}, chan : {1}, text : TextsOf(p)]
    \cup [type : {"broadcast"}, from : {1}, to : {0}, chan : {0}, text : TextsOf(p)]

Messages == MessagesOf(program)

Statuses == {"active", "finished", "error", "closed"}

\* Reply kinds counted in nsent.
CountedKinds == {"not_found", "progress", "channel_done", "summary"}

(***************************************************************************)
(* The bot as one record, so that the helpers compose.  A callback starts  *)
(* from Self; the record it returns also carries `out`, the replies the    *)
(* callback sent, in order, and `listed`, the channels whose files it      *)
(* listed, in order.                                                       *)
(***************************************************************************)
Self ==
    [ running |-> running, logged_in |-> logged_in, channel_id |-> channel_id,
      join_cmd_id |-> join_cmd_id, expected_downloads |-> expected_downloads,
      completed_downloads |-> completed_downloads,
      downloads_started |-> downloads_started, download_queue |-> download_queue,
      current_channel_id |-> current_channel_id, channel_paths |-> channel_paths,
      channel_pending_counts |-> channel_pending_counts,
      channel_completed_counts |-> channel_completed_counts,
      total_completed_files |-> total_completed_files,
      request_user_id |-> request_user_id, request_channel_id |-> request_channel_id,
      request_origin |-> request_origin,
      awaiting_password_channel_id |-> awaiting_password_channel_id,
      inflight |-> inflight, out |-> << >>, built |-> built, popped |-> popped,
      requested |-> requested, skipped |-> skipped, attempts |-> attempts,
      nsent |-> nsent, listed |-> << >>, program |-> program ]

Commit(s) ==
    /\ running' = s.running
    /\ logged_in' = s.logged_in
    /\ channel_id' = s.channel_id
    /\ join_cmd_id' = s.join_cmd_id
    /\ expected_downloads' = s.expected_downloads
    /\ completed_downloads' = s.completed_downloads
    /\ downloads_started' = s.downloads_started
    /\ download_queue' = s.download_queue
    /\ current_channel_id' = s.current_channel_id
    /\ channel_paths' = s.channel_paths
    /\ channel_pending_counts' = s.channel_pending_counts
    /\ channel_completed_counts' = s.channel_completed_counts
    /\ total_completed_files' = s.total_completed_files
    /\ request_user_id' = s.request_user_id
    /\ request_channel_id' = s.request_channel_id
    /\ request_origin' = s.request_origin
    /\ awaiting_password_channel_id' = s.awaiting_password_channel_id
    /\ inflight' = s.inflight
    /\ built' = s.built
    /\ popped' = s.popped
    /\ requested' = s.requested
    /\ skipped' = s.skipped
    /\ attempts' = s.attempts
    /\ nsent' = s.nsent

\* d[k] = v on a dict.
Put(d, k, v) == [x \in DOMAIN d \cup {k} |-> IF x = k THEN v ELSE d[x]]

\* d.get(k, dflt)
Get(d, k, dflt) == IF k \in DOMAIN d THEN d[k] ELSE dflt

EmptyDict == [x \in {} |-> 0]

(***************************************************************************)
(* Reply Sink.  A reply is observed as [kind, via, to, path, n].           *)
(***************************************************************************)
Count(s, kind) ==
    IF kind \in CountedKinds
    THEN [s.nsent EXCEPT ![kind] = @ + 1]
    ELSE s.nsent

\* A variant of _send_to_request_target that sends every reply as a channel
\* message to the stored channel id, whatever the origin.
SendToRequestTargetChannelOnly(s, kind, path, n) ==
    IF s.request_origin = NoOrigin THEN s
    ELSE [s EXCEPT !.out = Append(@, [kind |-> kind, via |-> "channel",
                                      to |-> s.request_channel_id, path |-> path, n |-> n]),
                   !.nsent = Count(s, kind)]

\* _send_to_request_target
SendToRequestTarget(s, kind, path, n) ==
    IF s.request_origin = "private" /\ s.request_user_id # None
    THEN [s EXCEPT !.out = Append(@, [kind |-> kind, via |-> "private",
                                      to |-> s.request_user_id, path |-> path, n |-> n]),
                   !.nsent = Count(s, kind)]
    ELSE IF s.request_origin = "channel" /\ s.request_channel_id # None
    THEN [s EXCEPT !.out = Append(@, [kind |-> kind, via |-> "channel",
                                      to |-> s.request_channel_id, path |-> path, n |-> n]),
                   !.nsent = Count(s, kind)]
    ELSE s

\* self._channel_paths.get(chan_id, f"channel_{chan_id}")
PathOf(s, chan_id) == Get(s.channel_paths, chan_id, ChannelName(chan_id))

(***************************************************************************)
(* The session client's answers inside one callback: for each channel, the *)
(* files getChannelFiles returns (named 1..n, in listing order) and the    *)
(* files for which doRecvFile returns a positive transfer id.  The bot     *)
(* treats the files of a listing alike, so the starts that fail are taken  *)
(* to be those of the last files listed.                                   *)
(***************************************************************************)
Outcomes == UNION { [files : {1..n}, ok : {1..j : j \in 0..n}] : n \in list_sizes }

NoFiles == [files |-> {}, ok |-> {}]

\* Variant: every doRecvFile call counted, whatever it returned.
StartedCountsAttempts(files, ok) == Cardinality(files)

\* started: the doRecvFile calls that returned a positive transfer id.
Started(files, ok) == Cardinality(files \cap ok)

\* Every channel empty: the callback then lists every channel it could list.
Env0 == [c \in ChanIds |-> NoFiles]

\* The answers a callback can get that lists the channels of `order` from the
\* i-th on, in this order: a channel is listed only when every channel before
\* it started no transfer.
RECURSIVE EnvsFrom(_, _)
EnvsFrom(order, i) ==
    IF i > Len(order) THEN {Env0}
    ELSE IF \E j \in 1..(i - 1) : order[j] = order[i] THEN EnvsFrom(order, i + 1)
    ELSE UNION { IF Started(o.files, o.ok) > 0
                 THEN {[Env0 EXCEPT ![order[i]] = o]}
                 ELSE {[e EXCEPT ![order[i]] = o] : e \in EnvsFrom(order, i + 1)}
                 : o \in Outcomes }

Envs(order) == EnvsFrom(order, 1)

(***************************************************************************)
(* Campaign orchestrator.                                                  *)
(***************************************************************************)
\* Variant: pop() instead of pop(0).
PopTaskLast(queue) ==
    [task |-> queue[Len(queue)], rest |-> SubSeq(queue, 1, Len(queue) - 1)]

\* task = self._download_queue.pop(0)
PopTask(queue) == [task |-> Head(queue), rest |-> Tail(queue)]

\* Variant: no channel is held back for a password.
NeedsPasswordNever(task) == FALSE

\* channel_mode == "auto_all" and task.get("requires_password") and not task.get("password")
NeedsPassword(task) ==
    channel_mode = "auto_all" /\ task.requires_password /\ task.password = ""

\* Variant: an empty listing is not told from one whose starts all fail.
ListedEmptyNever(files) == FALSE

\* if not files
ListedEmpty(files) == files = {}

\* Variant: the current channel is left set.
IdleKeepsCurrent(s) ==
    [s EXCEPT !.downloads_started = FALSE,
              !.awaiting_password_channel_id = None]

\* Variant: the campaign flag is left set.
IdleKeepsStarted(s) ==
    [s EXCEPT !.current_channel_id = None,
              !.awaiting_password_channel_id = None]

\* Lines 412-414: the bot is idle again.
Idle(s) ==
    [s EXCEPT !.downloads_started = FALSE,
              !.current_channel_id = None,
              !.awaiting_password_channel_id = None]

\* Variant: a channel none of whose transfers started is waited for.
NoneStartedNever(started) == FALSE

\* if started == 0
NoneStarted(started) == started = 0

RECURSIVE StartNextChannelDownload(_, _)
RECURSIVE StartDownloadsForChannel(_, _, _, _)

\* _start_downloads_for_channel
StartDownloadsForChannel(s, chan, path, env) ==
    LET files == env[chan].files
        ok    == env[chan].ok
        s0    == [s EXCEPT !.requested = Append(@, chan), !.listed = Append(@, chan)]
    IN  IF ListedEmpty(files)
        THEN LET s1 == SendToRequestTarget(s0, "no_files", path, 0)
                 s2 == [s1 EXCEPT !.channel_pending_counts = Put(@, chan, 0),
                                  !.channel_completed_counts = Put(@, chan, 0),
                                  !.attempts = Put(@, chan, [calls |-> 0, failed |-> 0])]
             IN  StartNextChannelDownload(s2, env)
        ELSE LET started == Started(files, ok)
                 s1 == [s0 EXCEPT
                          !.expected_downloads = @ \cup {<<chan, f>> : f \in files},
                          !.completed_downloads = @ \cup {<<chan, f>> : f \in files \ ok},
                          !.inflight = @ \cup {<<chan, f>> : f \in files \cap ok},
                          !.channel_pending_counts = Put(@, chan, started),
                          !.channel_completed_counts = Put(@, chan, 0),
                          !.attempts = Put(@, chan, [calls |-> Cardinality(files),
                                                     failed |-> Cardinality(files \ ok)])]
             IN  IF NoneStarted(started)
                 THEN StartNextChannelDownload(
                          SendToRequestTarget(s1, "start_failed", path, 0), env)
                 ELSE s1

\* _start_next_channel_download
StartNextChannelDownload(s, env) ==
    IF s.download_queue = << >>
    THEN LET s1 == IF s.downloads_started
                   THEN SendToRequestTarget(s, "summary", "", s.total_completed_files)
                   ELSE s
         IN  Idle(s1)
    ELSE LET task == PopTask(s.download_queue).task
             s1 == [s EXCEPT !.download_queue = PopTask(s.download_queue).rest,
                             !.current_channel_id = task.id,
                             !.popped = Append(@, task.id)]
         IN  IF NeedsPassword(task)
             THEN [SendToRequestTarget(s1, "need_password", task.path, 0)
                     EXCEPT !.awaiting_password_channel_id = task.id]
             ELSE StartDownloadsForChannel(
                      SendToRequestTarget(s1, "downloading", task.path, 0),
                      task.id, task.path, env)

(***************************************************************************)
(* Queue builder.                                                          *)
(***************************************************************************)
Task(id, path, password, requires_password) ==
    [id |-> id, path |-> path, password |-> password,
     requires_password |-> requires_password]

\* Variant: an unresolved entry is dropped without a reply.
UnresolvedSilent(s, path) == s

\* An entry of manual_list whose path does not resolve: reported, not queued.
Unresolved(s, path) == SendToRequestTarget(s, "not_found", path, 0)

\* The manual_list loop of _prepare_manual_queue, from entry i on.
RECURSIVE ManualLoop(_, _)
ManualLoop(s, i) ==
    IF i > Len(channels_to_download) THEN s
    ELSE LET ch   == channels_to_download[i]
             path == Strip(ch.path)
             chan == GetChannelIDFromPath(path)
         IN  IF path = "" THEN ManualLoop(s, i + 1)
             ELSE IF chan <= 0 THEN ManualLoop(Unresolved(s, path), i + 1)
             ELSE ManualLoop(
                      [s EXCEPT !.channel_paths = Put(@, chan, path),
                                !.download_queue =
                                    Append(@, Task(chan, path, ch.password, FALSE))],
                      i + 1)

\* _prepare_manual_queue
PrepareManualQueue(s) ==
    LET s0 == [s EXCEPT !.download_queue = << >>]
    IN  IF channel_mode = "single"
        THEN LET chan == IF s.channel_id # None THEN s.channel_id
                         ELSE GetChannelIDFromPath(channel_path)
                 path == IF channel_path # "" THEN channel_path
                         ELSE IF GetChannelPath(chan) # "" THEN GetChannelPath(chan)
                         ELSE ChannelName(chan)
             IN  IF chan <= 0 THEN s0
                 ELSE [s0 EXCEPT !.channel_paths = Put(@, chan, path),
                                 !.download_queue = Append(@, Task(chan, path, "", FALSE))]
        ELSE ManualLoop(s0, 1)

\* The loop of _prepare_auto_queue, from server channel i on.
RECURSIVE AutoLoop(_, _)
AutoLoop(s, i) ==
    IF i > Len(GetServerChannels) THEN s
    ELSE LET ch   == GetServerChannels[i]
             chan == ch.nChannelID
             path == IF GetChannelPath(chan) # "" THEN GetChannelPath(chan)
                     ELSE ChannelName(chan)
         IN  IF chan <= 0 THEN AutoLoop(s, i + 1)
             ELSE AutoLoop(
                      [s EXCEPT !.channel_paths = Put(@, chan, path),
                                !.download_queue =
                                    Append(@, Task(chan, path, "", ch.bPassword))],
                      i + 1)

\* _prepare_auto_queue
PrepareAutoQueue(s) == AutoLoop([s EXCEPT !.download_queue = << >>], 1)

QueueIds(queue) == [i \in DOMAIN queue |-> queue[i].id]

(***************************************************************************)
(* onCmdUserTextMessage.                                                   *)
(***************************************************************************)
OriginPrivate(m) == m.type = "user" /\ m.to = MyUserID
OriginChannel(m) == m.type = "channel" /\ m.chan # 0

\* Variant: the text is compared as received.
ContentRaw(m) == m.text

\* content = content_raw.strip().lower()
Content(m) == Lower(Strip(m.text))

\* if content != "download files" (downie.py: "pobierz pliki")
StartPhrase(s) ==
    IF s.program = "downie.py" THEN "pobierz pliki" ELSE "download files"

\* content in ("skip", "next", "")
\* downie.py: content in ("pomin", "pomiń", "pomiń kanał", "skip", "").  In
\* the strings of the model n' and l' stand for the letters with a diacritic.
SkipWordsDownie == {"pomin", "pomin'", "pomin' kanal'", "skip", ""}

IsSkip(s, content) ==
    IF s.program = "downie.py" THEN content \in SkipWordsDownie
    ELSE content \in {"skip", "next", ""}

\* Variant: the kind of message is compared, the sender or channel is not.
NotFromRequesterKindOnly(s, m) ==
    \/ s.request_origin = "private" /\ ~OriginPrivate(m)
    \/ s.request_origin = "channel" /\ ~OriginChannel(m)

\* The "Password must come from the same place" test; TRUE when the message is dropped.
NotFromRequester(s, m) ==
    \/ /\ s.request_origin = "private"
       /\ (~OriginPrivate(m) \/ m.from # s.request_user_id)
    \/ /\ s.request_origin = "channel"
       /\ (~OriginChannel(m) \/ m.chan # s.request_channel_id)

\* Lines 237-247: the origin of the message is recorded.
RecordOrigin(s, m) ==
    IF OriginPrivate(m)
    THEN [s EXCEPT !.request_origin = "private",
                   !.request_user_id = m.from,
                   !.request_channel_id = None]
    ELSE [s EXCEPT !.request_origin = "channel",
                   !.request_user_id = None,
                   !.request_channel_id = m.chan]

OriginOf(s) == [origin |-> s.request_origin, user |-> s.request_user_id,
                chan |-> s.request_channel_id]

\* Variant: in downie.py the skip is announced and the wait cleared, the queue
\* not advanced.
SkipChannelDownieStays(s, chan, path, env) ==
    LET s1 == [SendToRequestTarget(s, "skipping", path, 0)
                 EXCEPT !.awaiting_password_channel_id = None,
                        !.skipped = @ \cup {chan}]
    IN  IF s.program = "downie.py" THEN s1 ELSE StartNextChannelDownload(s1, env)

\* Variant: the skip is announced and the wait cleared, the queue not advanced.
SkipChannelOnly(s, chan, path, env) ==
    [SendToRequestTarget(s, "skipping", path, 0)
       EXCEPT !.awaiting_password_channel_id = None,
              !.skipped = @ \cup {chan}]

\* Lines 218-222: the reply is a skip.
SkipChannel(s, chan, path, env) ==
    StartNextChannelDownload(
        [SendToRequestTarget(s, "skipping", path, 0)
           EXCEPT !.awaiting_password_channel_id = None,
                  !.skipped = @ \cup {chan}],
        env)

\* Variant: after the password is saved the queue is advanced.
TakePasswordAdvance(s, m, chan, path, env) ==
    StartNextChannelDownload(
        [SendToRequestTarget(s, "password_saved", path, 0)
           EXCEPT !.awaiting_password_channel_id = None],
        env)

\* Lines 224-231: the reply is a password.
TakePassword(s, m, chan, path, env) ==
    LET s1 == [s EXCEPT !.download_queue =
                  [i \in DOMAIN @ |->
                      IF @[i].id = chan
                      THEN [@[i] EXCEPT !.password = Strip(m.text)]
                      ELSE @[i]]]
        s2 == SendToRequestTarget(s1, "password_saved", path, 0)
    IN  StartDownloadsForChannel(
            [s2 EXCEPT !.awaiting_password_channel_id = None], chan, path, env)

\* Lines 205-231: a message while a channel password is awaited.
PasswordReply(s, m, env) ==
    LET chan == s.awaiting_password_channel_id
        path == PathOf(s, chan)
    IN  IF NotFromRequester(s, m) THEN s
        ELSE IF IsSkip(s, Content(m)) THEN SkipChannel(s, chan, path, env)
        ELSE TakePassword(s, m, chan, path, env)

\* Lines 249: a campaign is active or queued.
Busy(s) == s.downloads_started \/ s.download_queue # << >>

\* Variant: the queue and the observations are reset, the counters and
\* mappings of the previous campaign are kept.
ResetCampaignQueueOnly(s) ==
    [s EXCEPT !.download_queue = << >>,
              !.built = << >>, !.popped = << >>, !.requested = << >>,
              !.skipped = {}, !.attempts = EmptyDict,
              !.nsent = [k \in CountedKinds |-> 0]]

\* Lines 257-264: the campaign state is cleared.
ResetCampaign(s) ==
    [s EXCEPT !.expected_downloads = {},
              !.completed_downloads = {},
              !.channel_paths = EmptyDict,
              !.channel_pending_counts = EmptyDict,
              !.channel_completed_counts = EmptyDict,
              !.total_completed_files = 0,
              !.download_queue = << >>,
              !.built = << >>, !.popped = << >>, !.requested = << >>,
              !.skipped = {}, !.attempts = EmptyDict,
              !.nsent = [k \in CountedKinds |-> 0]]

\* Lines 257-283: the trigger is accepted.
BeginCampaign(s, env) ==
    LET s1 == ResetCampaign(s)
        s2 == IF channel_mode \in {"manual_list", "single"} THEN PrepareManualQueue(s1)
              ELSE IF channel_mode = "auto_all" THEN PrepareAutoQueue(s1)
              ELSE PrepareManualQueue(s1)
        s3 == [s2 EXCEPT !.built = QueueIds(s2.download_queue)]
    IN  IF s3.download_queue = << >>
        THEN SendToRequestTarget(s3, "no_channels", "", 0)
        ELSE StartNextChannelDownload(
                 SendToRequestTarget([s3 EXCEPT !.downloads_started = TRUE], "starting",
                                     s3.download_queue[1].path, Len(s3.download_queue)),
                 env)

\* Lines 233-283: a message outside a password wait.
StartCommand(s, m, env) ==
    IF Content(m) # StartPhrase(s) THEN s
    ELSE IF ~OriginPrivate(m) /\ ~OriginChannel(m) THEN s
    ELSE LET s1 == RecordOrigin(s, m)
         IN  IF Busy(s1) THEN SendToRequestTarget(s1, "already_running", "", 0)
             ELSE IF s1.channel_id = None THEN SendToRequestTarget(s1, "not_ready", "", 0)
             ELSE BeginCampaign(s1, env)

\* Variant: the bot's own messages are ignored outside a password wait only.
OnCmdUserTextMessageWaitFirst(s, m, env) ==
    IF s.awaiting_password_channel_id # None THEN PasswordReply(s, m, env)
    ELSE IF m.from = MyUserID THEN s
    ELSE StartCommand(s, m, env)

OnCmdUserTextMessage(s, m, env) ==
    IF m.from = MyUserID THEN s
    ELSE IF s.awaiting_password_channel_id # None THEN PasswordReply(s, m, env)
    ELSE StartCommand(s, m, env)

(***************************************************************************)
(* onFileTransfer.                                                         *)
(***************************************************************************)
\* Variant: the completed set is not consulted.
AlreadyCompletedNever(s, key) == FALSE

\* key in self._completed_downloads
AlreadyCompleted(s, key) == key \in s.completed_downloads

\* Variant: a notice every 5 files.
NotifyDueEvery5(total) == total % 5 = 0

\* self._total_completed_files % self._notify_every == 0
NotifyDue(total) == total % NOTIFY_EVERY = 0

\* Variant: the counts are only tested for presence.
ChannelFinishedAnyCount(s, chan) ==
    /\ chan \in DOMAIN s.channel_pending_counts
    /\ chan \in DOMAIN s.channel_completed_counts

\* pending is not None and completed is not None and completed >= pending
ChannelFinished(s, chan) ==
    /\ chan \in DOMAIN s.channel_pending_counts
    /\ chan \in DOMAIN s.channel_completed_counts
    /\ s.channel_completed_counts[chan] >= s.channel_pending_counts[chan]

\* Variant: the terminal event is counted in the total only.
CountTerminalTotalOnly(s, key, chan) ==
    [s EXCEPT !.completed_downloads = @ \cup {key},
              !.total_completed_files = @ + 1]

\* Lines 313-315: the terminal event is counted.
CountTerminal(s, key, chan) ==
    [s EXCEPT !.completed_downloads = @ \cup {key},
              !.total_completed_files = @ + 1,
              !.channel_completed_counts = Put(@, chan, Get(@, chan, 0) + 1)]

\* Variant: every key is taken for an expected one.
ExpectedAlways(s, key) == TRUE

\* key in self._expected_downloads
Expected(s, key) == key \in s.expected_downloads

\* Variant: a completed channel advances the queue whether it is current or not.
StillCurrentAlways(s, chan) == TRUE

\* if self._current_channel_id == chan_id
StillCurrent(s, chan) == s.current_channel_id = chan

OnFileTransfer(s, ft, env) ==
    LET key  == <<ft.nChannelID, ft.szRemoteFileName>>
        chan == ft.nChannelID
    IN  IF ~Expected(s, key) THEN s
        ELSE IF ft.nStatus = "active" THEN s
        ELSE IF AlreadyCompleted(s, key) THEN s
        ELSE LET s1 == CountTerminal(s, key, chan)
                 s2 == IF NotifyDue(s1.total_completed_files)
                       THEN SendToRequestTarget(s1, "progress", "", s1.total_completed_files)
                       ELSE s1
             IN  IF ChannelFinished(s2, chan)
                 THEN LET s3 == SendToRequestTarget(s2, "channel_done", PathOf(s2, chan), 0)
                      IN  IF StillCurrent(s3, chan)
                          THEN StartNextChannelDownload(s3, env)
                          ELSE s3
                 ELSE s2

(***************************************************************************)
(* Session callbacks.                                                      *)
(***************************************************************************)
LoginCmd == 1                    \* the command id doLogin returns
JoinCmd == 2                     \* the command id doJoinChannelByID returns
Failed == -1                     \* a command id <= 0

\* A variant of _join_target_channel that keeps the bot running when the base
\* channel path is missing or does not resolve.
JoinTargetChannelKeepsRunning(s, cmd) ==
    IF channel_path = "" \/ GetChannelIDFromPath(channel_path) <= 0 THEN s
    ELSE [s EXCEPT !.channel_id = GetChannelIDFromPath(channel_path),
                   !.join_cmd_id = cmd,
                   !.running = IF cmd <= 0 THEN FALSE ELSE @]

\* _join_target_channel
JoinTargetChannel(s, cmd) ==
    IF channel_path = "" THEN [s EXCEPT !.running = FALSE]
    ELSE LET chan == GetChannelIDFromPath(channel_path)
         IN  IF chan <= 0 THEN [s EXCEPT !.running = FALSE]
             ELSE [s EXCEPT !.channel_id = chan,
                            !.join_cmd_id = cmd,
                            !.running = IF cmd <= 0 THEN FALSE ELSE @]

config == << channel_mode, channels_to_download, channel_path, program, protected,
            list_sizes >>

\* onConnectSuccess: doLogin returns cmd.
ConnectSuccess(cmd) ==
    /\ running /\ conn = "connecting"
    /\ conn' = "login"
    /\ Commit([Self EXCEPT !.running = IF cmd <= 0 THEN FALSE ELSE @])
    /\ UNCHANGED << config, lingering >>

\* onConnectFailed
ConnectFailed ==
    /\ running /\ conn = "connecting"
    /\ conn' = "down"
    /\ Commit([Self EXCEPT !.running = FALSE])
    /\ UNCHANGED << config, lingering >>

\* onConnectionLost
ConnectionLost ==
    /\ running /\ conn \in {"login", "joining", "joined"}
    /\ conn' = "down"
    /\ Commit([Self EXCEPT !.running = FALSE])
    /\ UNCHANGED << config, lingering >>

\* onCmdMyselfLoggedIn: doJoinChannelByID returns cmd.
CmdMyselfLoggedIn(cmd) ==
    /\ running /\ conn = "login"
    /\ conn' = "joining"
    /\ Commit(JoinTargetChannel([Self EXCEPT !.logged_in = TRUE], cmd))
    /\ UNCHANGED << config, lingering >>

\* onCmdMyselfLoggedOut
CmdMyselfLoggedOut ==
    /\ running /\ conn \in {"joining", "joined"}
    /\ conn' = "down"
    /\ Commit([Self EXCEPT !.running = FALSE])
    /\ UNCHANGED << config, lingering >>

\* onCmdError: the server rejects the pending command (login or join).
CmdError ==
    /\ running /\ conn \in {"login", "joining"}
    /\ LET cmdId == IF conn = "login" THEN LoginCmd ELSE JoinCmd
       IN  Commit([Self EXCEPT !.running = IF cmdId = join_cmd_id THEN FALSE ELSE @])
    /\ conn' = "rejected"
    /\ UNCHANGED << config, lingering >>

\* onCmdSuccess: the server confirms the join.
CmdSuccess ==
    /\ running /\ conn = "joining"
    /\ conn' = "joined"
    /\ Commit(Self)
    /\ UNCHANGED << config, lingering >>

(***************************************************************************)
(* Chat and transfer events.                                               *)
(***************************************************************************)
\* A text message is delivered to the logged-in bot.
UserTextMessage(m) ==
    /\ running /\ conn \in {"joining", "joined"}
    /\ \E env \in Envs(OnCmdUserTextMessage(Self, m, Env0).listed) :
           \E s \in {OnCmdUserTextMessage(Self, m, env)} : Commit(s)
    /\ UNCHANGED << config, conn, lingering >>

FileTransferOf(key, status) ==
    [nChannelID |-> key[1], szRemoteFileName |-> key[2], nStatus |-> status]

\* A transfer in flight reports progress.
TransferActive(key) ==
    /\ running /\ key \in inflight
    /\ \E s \in {OnFileTransfer(Self, FileTransferOf(key, "active"), Env0)} : Commit(s)
    /\ UNCHANGED << config, conn, lingering >>

\* A transfer in flight ends.  With `late`, the session still owes the closed
\* event that follows a finished or error event of the transfer.
TransferEnds(key, status, late) ==
    /\ running /\ key \in inflight
    /\ status \in Statuses \ {"active"}
    /\ late => status # "closed" /\ Cardinality(lingering \cup {key}) <= MaxLate
    /\ LET s0 == [Self EXCEPT !.inflight = @ \ {key}]
           ft == FileTransferOf(key, status)
       IN  \E env \in Envs(OnFileTransfer(s0, ft, Env0).listed) :
               \E s \in {OnFileTransfer(s0, ft, env)} : Commit(s)
    /\ lingering' = IF late THEN lingering \cup {key} ELSE lingering
    /\ UNCHANGED << config, conn >>

\* The closed event of a transfer that already reported finished or error.
TransferClosedLate(key) ==
    /\ running /\ key \in lingering
    /\ LET ft == FileTransferOf(key, "closed")
       IN  \E env \in Envs(OnFileTransfer(Self, ft, Env0).listed) :
               \E s \in {OnFileTransfer(Self, ft, env)} : Commit(s)
    /\ lingering' = lingering \ {key}
    /\ UNCHANGED << config, conn >>

Keys == ChanIds \X (1..(MaxFiles + BulkFiles))

(***************************************************************************)
(* Initial states and specifications.                                      *)
(***************************************************************************)
Entries == [path : Paths, password : {""}]

ManualLists == UNION { [1..n -> Entries] : n \in 0..MaxEntries }

BasePaths == {"", "/a", "/x"}

\* __init__
InitBot ==
    /\ running = TRUE
    /\ logged_in = FALSE
    /\ channel_id = None
    /\ join_cmd_id = None
    /\ expected_downloads = {}
    /\ completed_downloads = {}
    /\ downloads_started = FALSE
    /\ download_queue = << >>
    /\ current_channel_id = None
    /\ channel_paths = EmptyDict
    /\ channel_pending_counts = EmptyDict
    /\ channel_completed_counts = EmptyDict
    /\ total_completed_files = 0
    /\ request_user_id = None
    /\ request_channel_id = None
    /\ request_origin = NoOrigin
    /\ awaiting_password_channel_id = None
    /\ conn = "connecting"
    /\ inflight = {}
    /\ lingering = {}
    /\ built = << >>
    /\ popped = << >>
    /\ requested = << >>
    /\ skipped = {}
    /\ attempts = EmptyDict
    /\ nsent = [k \in CountedKinds |-> 0]

SingleMode ==
    channel_mode = "single" /\ channels_to_download = << >> /\ protected = {}

ManualMode(lists) ==
    channel_mode = "manual_list" /\ channels_to_download \in lists /\ protected = {}

AutoMode ==
    channel_mode = "auto_all" /\ channels_to_download = << >>
    /\ protected \in SUBSET ChanIds

TwoChannels == << [path |-> "/a", password |-> ""], [path |-> "/b", password |-> ""] >>

\* Every configuration within the bounds.
Init ==
    /\ InitBot
    /\ program = "tt_downloader_bot.py"
    /\ channel_path \in BasePaths
    /\ list_sizes = 0..MaxFiles
    /\ SingleMode \/ ManualMode(ManualLists) \/ AutoMode

\* The base channel alone, or two channels in a manual list.
InitLate ==
    /\ InitBot
    /\ program = "tt_downloader_bot.py"
    /\ channel_path = "/a"
    /\ list_sizes = 0..MaxFiles
    /\ SingleMode \/ ManualMode({TwoChannels})

\* Two channels of BulkFiles files each.
InitBulk ==
    /\ InitBot
    /\ program = "tt_downloader_bot.py"
    /\ channel_path = "/a"
    /\ list_sizes = {BulkFiles}
    /\ ManualMode({TwoChannels}) \/ AutoMode

Session ==
    \/ \E cmd \in {LoginCmd, Failed} : ConnectSuccess(cmd)
    \/ ConnectFailed
    \/ ConnectionLost
    \/ \E cmd \in {JoinCmd, Failed} : CmdMyselfLoggedIn(cmd)
    \/ CmdMyselfLoggedOut
    \/ CmdError
    \/ CmdSuccess

\* Every transfer reports one terminal event.
Next ==
    \/ Session
    \/ \E m \in Messages : UserTextMessage(m)
    \/ \E key \in Keys : TransferActive(key)
    \/ \E key \in Keys, status \in Statuses : TransferEnds(key, status, FALSE)

\* A finished or failed transfer may report closed as well.
NextLate ==
    \/ Next
    \/ \E key \in Keys, status \in Statuses : TransferEnds(key, status, TRUE)
    \/ \E key \in Keys : TransferClosedLate(key)

Spec == Init /\ [][Next]_vars

SpecLate == InitLate /\ [][NextLate]_vars

SpecBulk == InitBulk /\ [][Next]_vars

\* The bot of downie.py, in every mode.
InitDownie ==
    /\ InitBot
    /\ program = "downie.py"
    /\ channel_path = "/a"
    /\ list_sizes = 0..MaxFiles
    /\ SingleMode \/ ManualMode(ManualLists) \/ AutoMode

SpecDownie == InitDownie /\ [][Next]_vars

\* A transfer in flight reports a terminal status and the callback starts no
\* other transfer: onFileTransfer without _start_downloads_for_channel.
TransferReported ==
    running /\ \E key \in inflight : inflight' = inflight \ {key}

\* The base channel /a, and every mode over the two channels of the server;
\* a manual list may name a channel twice.
InitLive ==
    /\ InitBot
    /\ program = "tt_downloader_bot.py"
    /\ channel_path = "/a"
    /\ list_sizes = 0..MaxFiles
    /\ \/ SingleMode
       \/ ManualMode(UNION { [1..n -> [path : {"/a", "/b"}, password : {""}]] :
                               n \in 1..MaxEntries })
       \/ AutoMode

\* Every started transfer eventually reports a terminal status: while
\* transfers are in flight and the event loop runs, one of them ends.  (A
\* terminal event whose callback starts the transfers of the next channel is
\* a step of Next as well; the fairness asked for is that of the events that
\* start nothing, which is all the property needs.)
SpecLive == InitLive /\ [][Next]_vars /\ WF_inflight(TransferReported)

(***************************************************************************)
(* Properties.                                                             *)
(***************************************************************************)
Range(seq) == {seq[i] : i \in DOMAIN seq}

Terminal == Statuses \ {"active"}

\* The replies of kind `kind` among the replies `out` of one callback.
Replies(out, kind) == SelectSeq(out, LAMBDA r : r.kind = kind)

\* The campaign state of a bot record: everything but the replies sent and the
\* observation of the callback.
Campaign(s) ==
    << s.expected_downloads, s.completed_downloads, s.downloads_started,
       s.download_queue, s.current_channel_id, s.channel_paths,
       s.channel_pending_counts, s.channel_completed_counts,
       s.total_completed_files, s.awaiting_password_channel_id, s.inflight >>

Origin(s) == << s.request_origin, s.request_user_id, s.request_channel_id >>

\* C1 (as amended): the channels made current since the accepted trigger,
\* followed by the channels still queued, are the queue as it was built: tasks
\* are started in the order queued and each queue entry at most once; and the
\* channels whose files were requested are, in this order, the channels made
\* current that were neither skipped nor are waiting for a password.
C1_Fifo ==
    /\ popped \o QueueIds(download_queue) = built
    /\ requested = SelectSeq(popped, LAMBDA c :
                       c \notin skipped /\ c # awaiting_password_channel_id)

\* C1 witness: two different channels were started, the second after the first.
C1_Witness ==
    /\ Len(requested) = 2 /\ requested[1] # requested[2]
    /\ requested = built

\* C1 (original): FIFO, and no channel id is started twice between an accepted
\* trigger and the final summary.
C1_Original ==
    /\ C1_Fifo
    /\ \A i, j \in DOMAIN popped : i # j => popped[i] # popped[j]

\* C2: for every channel whose pending count has been set by
\* _start_downloads_for_channel, the completed count is at most the pending count.
C2_CompletedAtMostPending ==
    \A c \in DOMAIN channel_pending_counts :
        Get(channel_completed_counts, c, 0) <= channel_pending_counts[c]

\* C2 witness: a channel with two transfers started, both counted as completed,
\* after one of them reported a second terminal event.
C2_Witness ==
    \E c \in DOMAIN channel_pending_counts :
        /\ channel_pending_counts[c] = 2
        /\ Get(channel_completed_counts, c, 0) = 2
        /\ \E k \in lingering : k[1] = c

\* C3 (as amended): the pending count of a started channel is the number of
\* doRecvFile calls made for it minus the calls that failed, i.e. the number
\* of transfers that started.
C3_PendingIsStarted ==
    \A c \in DOMAIN channel_pending_counts :
        /\ c \in DOMAIN attempts
        /\ channel_pending_counts[c] = attempts[c].calls - attempts[c].failed

\* C3 witness: a channel of two files, one start failed and one succeeded.
C3_Witness ==
    \E c \in DOMAIN channel_pending_counts :
        /\ attempts[c].calls = 2 /\ attempts[c].failed = 1
        /\ channel_pending_counts[c] = 1

\* C3 (original): the pending count is the number of start attempts, failed
\* ones included.
C3_Original ==
    \A c \in DOMAIN channel_pending_counts :
        c \in DOMAIN attempts /\ channel_pending_counts[c] = attempts[c].calls

\* C4: a terminal event for a key recorded as completed changes no counter, no
\* mapping and not the queue position, and sends no reply.
C4_DuplicateTerminalIsNoOp ==
    \A key \in completed_downloads, status \in Terminal :
        LET s == OnFileTransfer(Self, FileTransferOf(key, status), Env0)
        IN  /\ Campaign(s) = Campaign(Self)
            /\ Origin(s) = Origin(Self)
            /\ s.out = << >>
            /\ s.listed = << >>

\* C4 witness: a transfer that was counted as completed still owes its closed
\* event, and its key is expected.
C4_Witness ==
    /\ total_completed_files > 0
    /\ \E key \in lingering : key \in completed_downloads \cap expected_downloads

\* C5: since the accepted trigger, running-total notices were sent
\* exactly at the 10th, 20th, ... counted completion: their number is the
\* number of multiples of 10 reached by total_completed_files, which counts
\* across the channels of the campaign; and a terminal event sends one exactly
\* when it is counted and makes the total a multiple of 10.
C5_NoticeEveryTenth ==
    /\ nsent["progress"] = total_completed_files \div NOTIFY_EVERY
    /\ \A key \in inflight, status \in Terminal :
          LET s == OnFileTransfer(Self, FileTransferOf(key, status), Env0)
              due == /\ s.total_completed_files = total_completed_files + 1
                     /\ s.total_completed_files % NOTIFY_EVERY = 0
          IN  /\ Len(Replies(s.out, "progress")) = (IF due THEN 1 ELSE 0)
              /\ \A i \in DOMAIN s.out :
                    s.out[i].kind = "progress" => s.out[i].n = s.total_completed_files
    /\ \A m \in Messages :
          Replies(OnCmdUserTextMessage(Self, m, Env0).out, "progress") = << >>

\* C5 witness: the 10th completion of the campaign came in its second channel,
\* whose own count is below 10, and one notice has been sent.
C5_Witness ==
    /\ total_completed_files = NOTIFY_EVERY
    /\ nsent["progress"] = 1
    /\ Len(popped) = 2
    /\ \A c \in DOMAIN channel_completed_counts :
          channel_completed_counts[c] < NOTIFY_EVERY

\* A message the bot takes as the trigger: the phrase, from somebody else, sent
\* privately or in a channel, outside a password wait.
IsTrigger(m) ==
    /\ m.from # MyUserID
    /\ Content(m) = "download files"
    /\ OriginPrivate(m) \/ OriginChannel(m)
    /\ awaiting_password_channel_id = None

\* C6 (original): a trigger received while a campaign is running is answered
\* with "already running" and changes no state, the recorded origin included.
C6_Original ==
    \A m \in Messages :
        IsTrigger(m) /\ Busy(Self) =>
            LET s == OnCmdUserTextMessage(Self, m, Env0)
            IN  /\ Len(s.out) = 1 /\ s.out[1].kind = "already_running"
                /\ Campaign(s) = Campaign(Self)
                /\ Origin(s) = Origin(Self)

\* C7 (original): while a campaign is running the recorded origin does not
\* change, so every reply of the campaign goes to the origin of the accepted
\* trigger.
C7_Original ==
    [][downloads_started /\ downloads_started'
          => UNCHANGED << request_origin, request_user_id, request_channel_id >>]_vars

\* C8: in single mode, for a channel of n files (0 < n < 10) whose n transfers
\* all started: no running-total notice is sent; while transfers are
\* outstanding no channel-completion and no summary has been sent; the event
\* that ends the campaign sends one channel-completion and one summary whose
\* total is n; and afterwards exactly one of each has been sent.
C8_SingleChannelReplies ==
    channel_mode = "single" =>
        \A c \in DOMAIN attempts :
            LET n == attempts[c].calls
            IN  (0 < n /\ n < NOTIFY_EVERY /\ attempts[c].failed = 0) =>
                  /\ nsent["progress"] = 0
                  /\ IF downloads_started
                     THEN nsent["channel_done"] = 0 /\ nsent["summary"] = 0
                     ELSE /\ nsent["channel_done"] = 1 /\ nsent["summary"] = 1
                          /\ total_completed_files = n
                  /\ \A key \in inflight, status \in Terminal :
                        LET s == OnFileTransfer(Self, FileTransferOf(key, status), Env0)
                            sum == Replies(s.out, "summary")
                        IN  downloads_started =>
                            /\ Len(sum) = Len(Replies(s.out, "channel_done"))
                            /\ Len(sum) = (IF s.downloads_started THEN 0 ELSE 1)
                            /\ \A i \in DOMAIN sum : sum[i].n = n

\* C8 witness: a single-mode campaign over a channel of two files has ended
\* with both counted.
C8_Witness ==
    /\ channel_mode = "single" /\ ~downloads_started
    /\ \E c \in DOMAIN attempts : attempts[c] = [calls |-> 2, failed |-> 0]
    /\ total_completed_files = 2
    /\ nsent["summary"] = 1 /\ nsent["channel_done"] = 1

\* A trigger the bot accepts in the current state.
Accepted(m) == IsTrigger(m) /\ ~Busy(Self) /\ channel_id # None

StrippedPaths(entries) == [i \in DOMAIN entries |-> Strip(entries[i].path)]

Resolves(path) == GetChannelIDFromPath(path) > 0

\* What an accepted trigger does with the configured list, given the paths
\* that must each be answered with one error reply.
ManualQueueReplies(unresolved) ==
    channel_mode = "manual_list" =>
        \A m \in Messages :
            Accepted(m) =>
                \A env \in Envs(OnCmdUserTextMessage(Self, m, Env0).listed) :
                    LET s  == OnCmdUserTextMessage(Self, m, env)
                        nf == Replies(s.out, "not_found")
                        good == SelectSeq(StrippedPaths(channels_to_download), Resolves)
                    IN  /\ [i \in DOMAIN nf |-> nf[i].path] = unresolved
                        /\ s.built = [i \in DOMAIN good |-> GetChannelIDFromPath(good[i])]
                        /\ s.built # << >> => s.popped # << >> /\ s.popped[1] = s.built[1]

\* C9 (as amended): on an accepted trigger in manual_list mode every entry
\* whose trimmed path is not empty and does not resolve to a positive channel
\* id gets exactly one error reply and is not queued (an entry whose trimmed
\* path is empty is dropped without a reply); the entries that resolve are
\* queued in configured order and the campaign starts with the first of them.
C9_UnresolvedReported ==
    ManualQueueReplies(
        SelectSeq(StrippedPaths(channels_to_download),
                  LAMBDA p : p # "" /\ ~Resolves(p)))

\* C9 witness: a list of one unresolvable and one resolvable path; the
\* campaign sent one error reply and started the resolvable channel.
C9_Witness ==
    /\ channel_mode = "manual_list"
    /\ StrippedPaths(channels_to_download) = << "/x", "/a" >>
    /\ nsent["not_found"] = 1
    /\ built = << 1 >> /\ popped = << 1 >>

\* C9 (original): every entry whose path does not resolve to a positive
\* channel id gets exactly one error reply.
C9_Original ==
    ManualQueueReplies(
        SelectSeq(StrippedPaths(channels_to_download), LAMBDA p : ~Resolves(p)))

\* C10: a skip reply from the requester while the password of channel c is
\* awaited is announced first, requests no listing and no transfer of c,
\* ends the wait for c, and in the same callback makes the next queue entry
\* current, or sends the final summary when the queue is empty; and no
\* transfer of a skipped channel is requested in that campaign.
C10_SkipAdvances ==
    /\ \A c \in skipped :
          /\ c \notin Range(requested)
          /\ \A key \in expected_downloads : key[1] # c
    /\ awaiting_password_channel_id # None =>
          \A m \in Messages :
              (m.from # MyUserID /\ ~NotFromRequester(Self, m) /\ IsSkip(Self, Content(m))) =>
                  \A env \in Envs(OnCmdUserTextMessage(Self, m, Env0).listed) :
                      LET c == awaiting_password_channel_id
                          s == OnCmdUserTextMessage(Self, m, env)
                      IN  /\ s.out # << >> /\ s.out[1].kind = "skipping"
                          /\ s.out[1].path = PathOf(Self, c)
                          /\ c \notin Range(s.listed)
                          /\ \A key \in s.inflight \ inflight : key[1] # c
                          /\ s.awaiting_password_channel_id # c
                          /\ c \in s.skipped
                          /\ IF download_queue = << >>
                             THEN /\ Len(Replies(s.out, "summary")) = 1
                                  /\ ~s.downloads_started
                                  /\ s.current_channel_id = None
                             ELSE /\ Len(s.popped) > Len(popped)
                                  /\ s.popped[Len(popped) + 1] = download_queue[1].id

\* C10 witness: the first channel was skipped during its password wait and
\* the files of the second were requested.
C10_Witness ==
    /\ Len(popped) = 2 /\ popped[1] \in skipped
    /\ requested = << popped[2] >>

\* A message the bot takes as a password while it waits for one: from the
\* requester, from somebody else than the bot, and no skip word.
IsPasswordReply(m) ==
    /\ awaiting_password_channel_id # None
    /\ m.from # MyUserID
    /\ ~NotFromRequester(Self, m)
    /\ ~IsSkip(Self, Content(m))

StoredPasswords(s) ==
    {<<s.download_queue[i].id, s.download_queue[i].password>> : i \in DOMAIN s.download_queue}

\* C12 (original): after a password reply for the awaited channel c the bot
\* holds a record that associates c with the supplied password.
C12_Original ==
    \A m \in Messages :
        IsPasswordReply(m) =>
            LET s == OnCmdUserTextMessage(Self, m, Env0)
            IN  <<awaiting_password_channel_id, Strip(m.text)>> \in StoredPasswords(s)

\* What a callback that ended in bot record s, with the listings of env, did
\* about the channels whose listing was empty: one "no files" reply for each,
\* in order, naming the channel; and it did not stop at such a channel: after
\* the last listing, if empty, the bot is idle or waits for a password.
EmptyChannelsPassed(s, env) ==
    LET empties == SelectSeq(s.listed, LAMBDA c : env[c].files = {})
        replies == Replies(s.out, "no_files")
    IN  /\ [i \in DOMAIN replies |-> replies[i].path] =
               [i \in DOMAIN empties |-> PathOf(s, empties[i])]
        /\ \A i \in DOMAIN empties :
               /\ Get(s.channel_pending_counts, empties[i], None - 1) = 0
               /\ Get(s.channel_completed_counts, empties[i], None - 1) = 0
        /\ (s.listed # << >> /\ env[s.listed[Len(s.listed)]].files = {}) =>
               \/ /\ ~s.downloads_started /\ s.current_channel_id = None
                  /\ s.download_queue = << >>
               \/ /\ s.awaiting_password_channel_id # None
                  /\ s.awaiting_password_channel_id = s.current_channel_id
                  /\ s.current_channel_id # s.listed[Len(s.listed)]

\* C13: a channel whose listing is empty gets a "no files" reply, pending and
\* completed counts 0, adds nothing to total_completed_files, and the same
\* callback goes on to the next queue entry (or ends the campaign); no
\* transfer event is waited for.
C13_EmptyChannelAdvances ==
    /\ \A c \in DOMAIN attempts :
          attempts[c].calls = 0 =>
              /\ Get(channel_pending_counts, c, None - 1) = 0
              /\ Get(channel_completed_counts, c, None - 1) = 0
              /\ current_channel_id # c
    /\ \A m \in Messages :
          \A env \in Envs(OnCmdUserTextMessage(Self, m, Env0).listed) :
              LET s == OnCmdUserTextMessage(Self, m, env)
              IN  /\ EmptyChannelsPassed(s, env)
                  /\ s.total_completed_files <= total_completed_files
    /\ \A key \in inflight, status \in Terminal :
          LET s0 == [Self EXCEPT !.inflight = @ \ {key}]
              ft == FileTransferOf(key, status)
          IN  \A env \in Envs(OnFileTransfer(s0, ft, Env0).listed) :
                  LET s == OnFileTransfer(s0, ft, env)
                  IN  /\ EmptyChannelsPassed(s, env)
                      /\ s.total_completed_files <= total_completed_files + 1

\* C13 witness: of two queued channels the first listed no files and the
\* second is downloading; nothing was counted for the first.
C13_Witness ==
    /\ Len(requested) = 2 /\ downloads_started
    /\ attempts[requested[1]].calls = 0
    /\ attempts[requested[2]].calls > 0
    /\ current_channel_id = requested[2]
    /\ total_completed_files = 0

\* The message comes from the place of the recorded request: the same private
\* sender, or the same channel.
SamePlace(m) ==
    \/ /\ request_origin = "private"
       /\ m.type = "user" /\ m.to = MyUserID /\ m.from = request_user_id
    \/ /\ request_origin = "channel"
       /\ m.type = "channel" /\ m.chan # 0 /\ m.chan = request_channel_id

Listening == running /\ conn \in {"joining", "joined"}

\* The replies of an accepted trigger: the campaign state was reset and the
\* queue built.
CampaignBegun(s) ==
    Replies(s.out, "starting") # << >> \/ Replies(s.out, "no_channels") # << >>

\* C15: a message from somebody else than the bot starts a new campaign (the
\* campaign state is reset and the queue built from the configuration) if and
\* only if its trimmed, case-folded text is the start phrase, it is a private
\* message to the bot or a channel message, and no campaign is active and the
\* queue is empty; the campaign then belongs to the origin of that message.
C15_TriggerIff ==
    \A m \in Messages :
        (Listening /\ m.from # MyUserID) =>
            \A env \in Envs(OnCmdUserTextMessage(Self, m, Env0).listed) :
                LET s == OnCmdUserTextMessage(Self, m, env)
                    phrase  == Lower(Strip(m.text)) = "download files"
                    private == m.type = "user" /\ m.to = MyUserID
                    channel == m.type = "channel" /\ m.chan # 0
                    idle    == ~downloads_started /\ download_queue = << >>
                IN  /\ CampaignBegun(s) <=> (phrase /\ (private \/ channel) /\ idle)
                    /\ CampaignBegun(s) =>
                          /\ s.popped \o QueueIds(s.download_queue) = s.built
                          /\ s.request_origin = (IF private THEN "private" ELSE "channel")
                          /\ s.request_user_id = (IF private THEN m.from ELSE None)
                          /\ s.request_channel_id = (IF private THEN None ELSE m.chan)
                          /\ Len(Replies(s.out, "starting")) =
                                (IF s.built = << >> THEN 0 ELSE 1)
                          /\ Len(Replies(s.out, "no_channels")) =
                                (IF s.built = << >> THEN 1 ELSE 0)
                    /\ ~CampaignBegun(s) =>
                          /\ s.built = built
                          /\ Replies(s.out, "downloading") # << >> =>
                                awaiting_password_channel_id # None

\* C15 witness: a campaign begun by a channel message is running.
C15_Witness ==
    /\ downloads_started /\ request_origin = "channel"
    /\ built # << >> /\ requested # << >>
    /\ awaiting_password_channel_id = None /\ skipped = {}

\* A message with the start phrase, from somebody else than the bot, sent
\* privately to the bot or in a channel.
HasTriggerPhrase(m) ==
    /\ m.from # MyUserID
    /\ Lower(Strip(m.text)) = "download files"
    /\ OriginPrivate(m) \/ OriginChannel(m)

\* C16 (original): in every state in which a campaign is active or the queue
\* is not empty, a password wait included, a message with the start phrase
\* from any valid origin is answered "already running" and nothing else, and
\* starts no downloads.
C16_Original ==
    \A m \in Messages :
        (Listening /\ HasTriggerPhrase(m) /\ Busy(Self)) =>
            \A env \in Envs(OnCmdUserTextMessage(Self, m, Env0).listed) :
                LET s == OnCmdUserTextMessage(Self, m, env)
                IN  /\ Len(s.out) = 1 /\ s.out[1].kind = "already_running"
                    /\ s.requested = requested
                    /\ s.inflight = inflight
                    /\ s.awaiting_password_channel_id = awaiting_password_channel_id

\* C17 (original): a start message that arrives before the join of the base
\* channel is confirmed is answered "not ready" and starts no campaign.
C17_Original ==
    \A m \in Messages :
        (Listening /\ conn # "joined" /\ HasTriggerPhrase(m) /\ ~Busy(Self)) =>
            \A env \in Envs(OnCmdUserTextMessage(Self, m, Env0).listed) :
                LET s == OnCmdUserTextMessage(Self, m, env)
                IN  /\ Len(s.out) = 1 /\ s.out[1].kind = "not_ready"
                    /\ s.download_queue = << >> /\ ~s.downloads_started
                    /\ s.requested = requested /\ s.inflight = inflight

\* The summaries of one callback that ended in bot record s: one, carrying
\* total_completed_files, when a campaign that was running or was begun in the
\* callback has ended in it, and none otherwise; and after a summary the bot is
\* idle.
SummaryAtEnd(s) ==
    LET sum == Replies(s.out, "summary")
        ran == downloads_started \/ Replies(s.out, "starting") # << >>
    IN  /\ Len(sum) = (IF ran /\ ~s.downloads_started THEN 1 ELSE 0)
        /\ \A i \in DOMAIN sum : sum[i].n = s.total_completed_files
        /\ sum # << >> =>
              /\ s.out[Len(s.out)].kind = "summary"
              /\ s.current_channel_id = None
              /\ s.awaiting_password_channel_id = None
              /\ s.download_queue = << >>

\* C18: the final summary is sent when the queue is found empty and a campaign
\* had started, carries total_completed_files, and leaves the bot idle with
\* current channel and password wait cleared; since the accepted trigger one
\* summary has been sent when the campaign of a non-empty build has ended, and
\* none while it runs or when the build was empty.
C18_OneSummaryPerCampaign ==
    /\ downloads_started => nsent["summary"] = 0 /\ built # << >>
    /\ ~downloads_started =>
          /\ current_channel_id = None
          /\ awaiting_password_channel_id = None
          /\ download_queue = << >>
          /\ nsent["summary"] = (IF built # << >> THEN 1 ELSE 0)
    /\ \A m \in Messages :
          Listening =>
              \A env \in Envs(OnCmdUserTextMessage(Self, m, Env0).listed) :
                  SummaryAtEnd(OnCmdUserTextMessage(Self, m, env))
    /\ \A key \in inflight \cup lingering, status \in Terminal :
          LET ft == FileTransferOf(key, status)
          IN  \A env \in Envs(OnFileTransfer(Self, ft, Env0).listed) :
                  SummaryAtEnd(OnFileTransfer(Self, ft, env))

\* C18 witness: a campaign over two channels has ended and its one summary
\* has been sent.
C18_Witness ==
    /\ ~downloads_started /\ Len(built) = 2 /\ popped = built
    /\ nsent["summary"] = 1 /\ total_completed_files > 0

\* A step that counts a file counts one, for an expected key that was not
\* completed and now is; nothing leaves the completed set but by the reset of
\* an accepted trigger.
CountsOneNewKey ==
    total_completed_files' # total_completed_files =>
        \/ total_completed_files' = 0
        \/ /\ total_completed_files' = total_completed_files + 1
           /\ completed_downloads \subseteq completed_downloads'
           /\ \E key \in expected_downloads \cap inflight :
                 key \notin completed_downloads /\ key \in completed_downloads'

\* The expected keys not yet in the completed set.
Uncompleted == expected_downloads \ completed_downloads

\* C19: if every started transfer eventually reports a terminal status, every
\* expected key is eventually in the completed set (unless the bot stops): an
\* uncompleted key stays expected, and whenever there are uncompleted keys
\* there are eventually none; and a key is counted at most once: each
\* increment of total_completed_files comes with a key new to the completed
\* set, and neither the total nor a channel's completed count exceeds the
\* number of completed keys it counts.
C19_EveryKeyCompletedOnce ==
    /\ [][CountsOneNewKey]_vars
    /\ [][Uncompleted \subseteq expected_downloads']_vars
    /\ [](/\ total_completed_files <= Cardinality(completed_downloads)
          /\ \A c \in DOMAIN channel_completed_counts :
                channel_completed_counts[c] <=
                    Cardinality({key \in completed_downloads : key[1] = c}))
    /\ (Uncompleted # {}) ~> (Uncompleted = {} \/ ~running)

\* C19 witness: two expected keys, both completed and counted.
C19_Witness ==
    /\ Cardinality(expected_downloads) = 2
    /\ expected_downloads \subseteq completed_downloads
    /\ total_completed_files = 2 /\ running

\* The current channel was current before in this campaign.
LaterOccurrence ==
    /\ downloads_started /\ popped # << >>
    /\ popped[Len(popped)] = current_channel_id
    /\ \E i \in 1..(Len(popped) - 1) : popped[i] = current_channel_id

\* C20 (original): the transfers started for a later occurrence of a channel
\* id are counted for it: the terminal event of each of them adds one to the
\* channel's completed count, or ends the channel.
C20_Original ==
    LaterOccurrence =>
        \A key \in inflight, status \in Terminal :
            key[1] = current_channel_id =>
                LET s == OnFileTransfer([Self EXCEPT !.inflight = @ \ {key}],
                                        FileTransferOf(key, status), Env0)
                IN  \/ Get(s.channel_completed_counts, key[1], 0) =
                           Get(channel_completed_counts, key[1], 0) + 1
                    \/ s.current_channel_id # current_channel_id
                    \/ ~s.downloads_started

\* C21 (original): errors local to a channel or a file never abort the
\* campaign: whatever the listings, the results of the starts and the terminal
\* statuses of the transfers, a running campaign goes on through its queue to
\* the final summary, unless the bot is stopped by the session or waits for a
\* password.
C21_Original ==
    downloads_started
        ~> (~downloads_started \/ ~running \/ awaiting_password_channel_id # None)

\* The step of a session-level failure: the connection fails, is lost or the
\* bot is logged out; the login cannot be started; the base channel path is
\* missing or unresolved, or the join cannot be started; the join is rejected.
SessionFails ==
    \/ conn' = "down"
    \/ conn = "connecting" /\ ConnectSuccess(Failed)
    \/ /\ conn = "login" /\ conn' = "joining"
       /\ \/ channel_path = ""
          \/ GetChannelIDFromPath(channel_path) <= 0
          \/ join_cmd_id' <= 0
    \/ conn = "joining" /\ conn' = "rejected"

\* C22: the session-level failures set the run flag to false and only they
\* do: a step clears the flag exactly when it is such a failure, so no text
\* message and no transfer event clears it; every step is taken while the flag
\* is true, so once it is false it is never true again and nothing follows.
C22_OnlySessionFailuresStop ==
    [][ /\ running
        /\ ~running' <=> SessionFails
        /\ conn' = conn => running' ]_vars

\* The session ended in the middle of a campaign, with transfers in flight,
\* and the bot stopped.
C22_Witness ==
    /\ ~running /\ conn = "down" /\ downloads_started /\ inflight # {}

\* C23 (original): every failure the user can see is answered: when a
\* transfer in flight ends with the error status, the callback sends at least
\* one reply to the request origin.
C23_Original ==
    \A key \in inflight :
        LET s0 == [Self EXCEPT !.inflight = @ \ {key}]
            ft == FileTransferOf(key, "error")
        IN  \A env \in Envs(OnFileTransfer(s0, ft, Env0).listed) :
                OnFileTransfer(s0, ft, env).out # << >>

\* The origins onCmdUserTextMessage can record: none, a private message of a
\* user, a message in a channel.
RecordedOrigins ==
    {<< NoOrigin, None, None >>}
        \cup {<< "private", u, None >> : u \in UserIds \ {MyUserID}}
        \cup {<< "channel", None, c >> : c \in ChanIds}

\* Every reply of the list goes where the origin o says.
RoutedTo(out, o) ==
    \A i \in DOMAIN out :
        \/ o[1] = "private" /\ out[i].via = "private" /\ out[i].to = o[2]
        \/ o[1] = "channel" /\ out[i].via = "channel" /\ out[i].to = o[3]

\* C24: the reply sink routes by the recorded origin.  The recorded origin is
\* none, private with a user id, or channel with a channel id; for each of
\* them one call of the sink sends exactly one private message to that user,
\* exactly one channel message to that channel, or nothing, and changes no
\* state of the bot; and every reply of every callback (text message or
\* transfer event) goes to the origin recorded when the callback returns.
C24_RoutedByOrigin ==
    /\ Origin(Self) \in RecordedOrigins
    /\ \A o \in RecordedOrigins, kind \in CountedKinds :
          LET s == [Self EXCEPT !.request_origin = o[1], !.request_user_id = o[2],
                                !.request_channel_id = o[3]]
              r == SendToRequestTarget(s, kind, "/a", 1)
          IN  /\ [r EXCEPT !.out = << >>, !.nsent = nsent] = s
              /\ Len(r.out) = (IF o[1] = NoOrigin THEN 0 ELSE 1)
              /\ RoutedTo(r.out, o)
              /\ o[1] = NoOrigin => r = s
    /\ Listening =>
          \A m \in Messages :
              \A env \in Envs(OnCmdUserTextMessage(Self, m, Env0).listed) :
                  LET s == OnCmdUserTextMessage(Self, m, env)
                  IN  RoutedTo(s.out, Origin(s))
    /\ \A key \in inflight, status \in Statuses :
          LET s0 == [Self EXCEPT !.inflight = @ \ {key}]
              ft == FileTransferOf(key, status)
          IN  \A env \in Envs(OnFileTransfer(s0, ft, Env0).listed) :
                  LET s == OnFileTransfer(s0, ft, env)
                  IN  RoutedTo(s.out, Origin(s))

\* C24 witness: a campaign requested in channel 2 has announced the completion
\* of a channel and has transfers of the next one in flight.
C24_Witness ==
    /\ request_origin = "channel" /\ request_channel_id = 2
    /\ nsent["channel_done"] > 0
    /\ inflight # {}

\* C25 (original): during a password wait, in both source files, a reply
\* accepted from the requester is answered as a skip if and only if its
\* trimmed, case-folded text is "skip", "next" or empty, and as a supplied
\* password otherwise.
C25_Original ==
    awaiting_password_channel_id # None =>
        \A m \in Messages :
            (m.from # MyUserID /\ SamePlace(m)) =>
                LET s == OnCmdUserTextMessage(Self, m, Env0)
                IN  /\ s.out # << >>
                    /\ s.out[1].kind = "skipping"
                          <=> Lower(Strip(m.text)) \in {"skip", "next", ""}
                    /\ s.out[1].kind = "password_saved"
                          <=> Lower(Strip(m.text)) \notin {"skip", "next", ""}

\* C26: a message sent by the bot itself is ignored in every state, a
\* password wait included; outside a password wait a message is ignored when
\* its trimmed, case-folded text is not the start phrase or when it is neither
\* a private message to the bot nor a message in a channel.  Ignored means
\* that the callback returns the state it was given, request origin included,
\* lists no channel, starts no transfer and sends no reply.
C26_IgnoredMessages ==
    \A m \in Messages :
        LET own    == m.from = MyUserID
            phrase == Lower(Strip(m.text)) = "download files"
            placed == \/ m.type = "user" /\ m.to = MyUserID
                      \/ m.type = "channel" /\ m.chan # 0
        IN  (own \/ (awaiting_password_channel_id = None /\ (~phrase \/ ~placed)))
                => OnCmdUserTextMessage(Self, m, Env0) = Self

\* C26 witness: a campaign requested in channel 1 waits for a password, and
\* the bot's own prompt comes back to it as a message of that channel.
C26_Witness ==
    /\ Listening
    /\ awaiting_password_channel_id # None
    /\ request_origin = "channel" /\ request_channel_id = 1
    /\ \E m \in Messages :
          /\ m.from = MyUserID /\ m.type = "channel" /\ m.chan = request_channel_id
          /\ OnCmdUserTextMessage(Self, m, Env0) = Self

\* The channels whose files the step lists: those appended to the requested
\* channels, or all of them when the step is an accepted trigger.
NewlyRequested ==
    IF requested' = requested THEN {}
    ELSE IF downloads_started
         THEN {requested'[i] : i \in (Len(requested) + 1)..Len(requested')}
         ELSE Range(requested')

C28_Original ==
    \A k1, k2 \in inflight : k1[1] = k2[1]

\* C29: a terminal event announces the completion of its channel exactly when
\* it is counted and makes the channel's completed count reach the pending
\* count, and then once; the callback advances the queue (makes the next
\* entry current, or ends the campaign when the queue is empty) exactly when
\* in addition the channel is the current one, whatever channel is current;
\* otherwise queue, current channel and campaign flag stay as they are.  In a
\* campaign without a repeated channel id the completions announced so far
\* are one for each channel whose started transfers were all counted.
C29_CompletionOncePerStart ==
    /\ \A key \in inflight, status \in Terminal, cur \in ChanIds \cup {None} :
          LET chan    == key[1]
              s0      == [Self EXCEPT !.inflight = @ \ {key},
                                      !.current_channel_id = cur]
              ft      == FileTransferOf(key, status)
              reaches == /\ key \in expected_downloads \ completed_downloads
                         /\ chan \in DOMAIN channel_pending_counts
                         /\ Get(channel_completed_counts, chan, 0) + 1
                               = channel_pending_counts[chan]
          IN  \A env \in Envs(OnFileTransfer(s0, ft, Env0).listed) :
                  LET s == OnFileTransfer(s0, ft, env)
                  IN  /\ Len(Replies(s.out, "channel_done"))
                            = (IF reaches THEN 1 ELSE 0)
                      /\ IF reaches /\ cur = chan
                         THEN IF download_queue = << >>
                              THEN /\ ~s.downloads_started
                                   /\ s.current_channel_id = None
                              ELSE /\ Len(s.popped) > Len(popped)
                                   /\ s.popped[Len(popped) + 1] = download_queue[1].id
                                   /\ Len(s.download_queue) < Len(download_queue)
                         ELSE /\ s.download_queue = download_queue
                              /\ s.popped = popped
                              /\ s.current_channel_id = cur
                              /\ s.downloads_started = downloads_started
                              /\ s.listed = << >>
    /\ (\A i, j \in DOMAIN popped : popped[i] = popped[j] => i = j) =>
          nsent["channel_done"] =
              Cardinality({c \in DOMAIN channel_pending_counts :
                              /\ channel_pending_counts[c] > 0
                              /\ Get(channel_completed_counts, c, 0)
                                    = channel_pending_counts[c]})

\* C29 witness: the completion of the first channel was announced once and the
\* queue advanced to the second channel, whose transfers are in flight.
C29_Witness ==
    /\ nsent["channel_done"] = 1
    /\ Len(popped) = 2 /\ popped[1] # popped[2]
    /\ \E key \in inflight : key[1] = popped[2] /\ current_channel_id = popped[2]

\* What _start_downloads_for_channel has done with the failed starts when the
\* callback returns s, for the channels it listed under the oracle env: one
\* doRecvFile call per listed file; the key of every failed start is completed
\* and not in flight; the pending count is the number of successful starts;
\* any later event for such a key changes nothing and sends nothing.
FailedStartsFolded(s, env) ==
    \A i \in DOMAIN s.listed :
        LET c      == s.listed[i]
            files  == env[c].files
            failed == {<<c, f>> : f \in files \ env[c].ok}
            quiet  == [s EXCEPT !.out = << >>, !.listed = << >>]
        IN  files # {} =>
              /\ s.attempts[c].calls = Cardinality(files)
              /\ s.attempts[c].failed = Cardinality(failed)
              /\ failed \subseteq s.expected_downloads \cap s.completed_downloads
              /\ failed \cap s.inflight = {}
              /\ s.channel_pending_counts[c] = Cardinality(files \cap env[c].ok)
              /\ s.channel_completed_counts[c] = 0
              /\ \A key \in failed, status \in Statuses :
                    OnFileTransfer(quiet, FileTransferOf(key, status), Env0) = quiet

\* C30: a failed transfer start is not retried and is folded into the
\* accounting in the same step (FailedStartsFolded, for every callback that
\* starts a channel: an accepted message or a terminal event); and the
\* current channel of a running campaign has fewer counted terminal events
\* than successful starts, so with C29 it completes after exactly as many
\* counted events as transfers were started.
C30_FailedStartsFolded ==
    /\ Listening =>
          \A m \in Messages :
              \A env \in Envs(OnCmdUserTextMessage(Self, m, Env0).listed) :
                  FailedStartsFolded(OnCmdUserTextMessage(Self, m, env), env)
    /\ \A key \in inflight, status \in Terminal :
          LET s0 == [Self EXCEPT !.inflight = @ \ {key}]
              ft == FileTransferOf(key, status)
          IN  \A env \in Envs(OnFileTransfer(s0, ft, Env0).listed) :
                  FailedStartsFolded(OnFileTransfer(s0, ft, env), env)
    /\ (downloads_started /\ awaiting_password_channel_id = None) =>
          /\ current_channel_id \in DOMAIN channel_pending_counts
          /\ Get(channel_completed_counts, current_channel_id, 0)
                < channel_pending_counts[current_channel_id]

\* C30 witness: of the two files of a channel one start failed; the channel
\* was completed by the one terminal event of the other and announced once.
C30_Witness ==
    \E c \in DOMAIN channel_pending_counts :
        /\ attempts[c] = [calls |-> 2, failed |-> 1]
        /\ channel_pending_counts[c] = 1
        /\ Get(channel_completed_counts, c, 0) = 1
        /\ total_completed_files = 1
        /\ nsent["channel_done"] = 1
        /\ Cardinality({k \in completed_downloads : k[1] = c}) = 2

\* The positions of the listings of the callback result s, under the oracle
\* env, that had files and no successful start.
AllStartsFailed(s, env) ==
    {i \in DOMAIN s.listed :
        /\ env[s.listed[i]].files # {}
        /\ env[s.listed[i]].files \cap env[s.listed[i]].ok = {}}

\* What a callback that returns s has done about the channels all of whose
\* starts failed: one failure notice each, followed in the same callback by
\* the reply of the advance (the next channel's announcement or password
\* prompt, its own notice of no files or of failure, or the final summary);
\* the callback does not rest on such a channel.
FailedChannelsPassed(s, env) ==
    /\ Len(Replies(s.out, "start_failed")) = Cardinality(AllStartsFailed(s, env))
    /\ \A i \in DOMAIN s.out :
          s.out[i].kind = "start_failed" =>
              /\ i < Len(s.out)
              /\ s.out[i + 1].kind \in {"downloading", "need_password", "summary"}
    /\ (s.downloads_started /\ s.awaiting_password_channel_id = None) =>
          /\ s.current_channel_id \in DOMAIN s.channel_pending_counts
          /\ s.channel_pending_counts[s.current_channel_id] > 0

\* C31: when a channel lists files and every start fails, the callback
\* announces the failure and advances in the same step (FailedChannelsPassed);
\* it sends no completion notice for the channel (a text message sends none,
\* a terminal event only the one of the channel it completes) and adds
\* nothing to the total (a text message leaves it at 0 or as it was, a
\* terminal event adds its own one).
C31_AllStartsFailedAdvances ==
    /\ Listening =>
          \A m \in Messages :
              \A env \in Envs(OnCmdUserTextMessage(Self, m, Env0).listed) :
                  LET s == OnCmdUserTextMessage(Self, m, env)
                  IN  /\ FailedChannelsPassed(s, env)
                      /\ Replies(s.out, "channel_done") = << >>
                      /\ s.total_completed_files \in {0, total_completed_files}
                      /\ AllStartsFailed(s, env) # {} =>
                            \A i \in AllStartsFailed(s, env) :
                                s.channel_pending_counts[s.listed[i]] = 0
    /\ \A key \in inflight, status \in Terminal :
          LET s0 == [Self EXCEPT !.inflight = @ \ {key}]
              ft == FileTransferOf(key, status)
              quiet == OnFileTransfer(s0, ft, Env0)
          IN  \A env \in Envs(quiet.listed) :
                  LET s == OnFileTransfer(s0, ft, env)
                  IN  /\ FailedChannelsPassed(s, env)
                      /\ Len(Replies(s.out, "channel_done")) <= 1
                      /\ Replies(s.out, "channel_done")
                            = Replies(quiet.out, "channel_done")
                      /\ s.total_completed_files = quiet.total_completed_files
                      /\ s.total_completed_files <= total_completed_files + 1

\* C31 witness: every start of the first channel failed; the campaign went on
\* to the second channel in the callback of the trigger, with nothing counted
\* and no completion announced.
C31_Witness ==
    /\ Len(requested) = 2 /\ requested[1] # requested[2]
    /\ attempts[requested[1]].calls > 0
    /\ attempts[requested[1]].failed = attempts[requested[1]].calls
    /\ current_channel_id = requested[2] /\ inflight # {}
    /\ total_completed_files = 0 /\ nsent["channel_done"] = 0

\* C32: a transfer event whose key is not expected, whatever its status, and
\* an event with the active status, whatever its key, returns the state it
\* was given: completed set, total, per-channel counters, queue, current
\* channel and password wait included; it lists no channel, starts no transfer
\* and sends no reply.
C32_ExtraneousEventIsNoOp ==
    \A key \in Keys, status \in Statuses :
        (key \notin expected_downloads \/ status = "active")
            => OnFileTransfer(Self, FileTransferOf(key, status), Env0) = Self

\* C32 witness: a campaign has transfers in flight, which may report
\* progress, while the closed event of a transfer of the previous campaign,
\* whose key the campaign does not expect, is still to come.
C32_Witness ==
    /\ downloads_started /\ inflight # {}
    /\ \E key \in lingering : key \notin expected_downloads

\* C33: an accepted trigger leaves nothing of an earlier campaign: when its
\* callback returns, the expected keys are those of the files it listed, the
\* completed keys those of its failed starts, the pending and completed
\* counters belong to the channels it listed (completed counts 0), the path
\* map to the channels it queued, and the total is 0.  Hence, in every state,
\* the expected keys belong to channels requested since the trigger, the
\* completed keys are expected, and the total, which the final summary
\* reports, is at most the number of completed keys.
C33_TriggerResets ==
    /\ Listening =>
          \A m \in Messages :
              Accepted(m) =>
                  \A env \in Envs(OnCmdUserTextMessage(Self, m, Env0).listed) :
                      LET s == OnCmdUserTextMessage(Self, m, env)
                          listedKeys == UNION {{<<c, f>> : f \in env[c].files}
                                                 : c \in Range(s.listed)}
                          failedKeys == UNION {{<<c, f>> : f \in env[c].files \ env[c].ok}
                                                 : c \in Range(s.listed)}
                      IN  /\ s.expected_downloads = listedKeys
                          /\ s.completed_downloads = failedKeys
                          /\ DOMAIN s.channel_pending_counts = Range(s.listed)
                          /\ DOMAIN s.channel_completed_counts = Range(s.listed)
                          /\ \A c \in Range(s.listed) : s.channel_completed_counts[c] = 0
                          /\ DOMAIN s.channel_paths = Range(s.built)
                          /\ s.total_completed_files = 0
    /\ \A key \in expected_downloads : key[1] \in Range(requested)
    /\ completed_downloads \subseteq expected_downloads
    /\ total_completed_files <= Cardinality(completed_downloads)
    /\ \A key \in inflight, status \in Terminal :
          LET s == OnFileTransfer([Self EXCEPT !.inflight = @ \ {key}],
                                  FileTransferOf(key, status), Env0)
          IN  \A i \in DOMAIN s.out :
                  s.out[i].kind = "summary" =>
                      /\ s.out[i].n = s.total_completed_files
                      /\ s.out[i].n <= Cardinality(s.expected_downloads)

\* C33 witness: a campaign has ended with two files counted, and the bot can
\* accept a trigger that begins a campaign with nothing expected and nothing
\* counted.
C33_Witness ==
    /\ Listening /\ ~downloads_started
    /\ total_completed_files = 2 /\ Cardinality(expected_downloads) = 2
    /\ \E m \in Messages :
          /\ Accepted(m)
          /\ OnCmdUserTextMessage(Self, m, Env0).total_completed_files = 0
          /\ OnCmdUserTextMessage(Self, m, Env0).expected_downloads = {}
          /\ OnCmdUserTextMessage(Self, m, Env0).completed_downloads = {}

\* C34 (original): when the final summary has been sent and the bot is idle,
\* no request origin is recorded: neither a kind of origin, nor a user id, nor
\* a channel id; so a notification issued then would be sent to nobody.
C34_Original ==
    (~downloads_started /\ nsent["summary"] > 0) =>
        /\ Origin(Self) = << NoOrigin, None, None >>
        /\ SendToRequestTarget(Self, "summary", "", 0).out = << >>

\* C35 (original): one campaign at a time, and every campaign ends: while a
\* campaign is active its queue is not rebuilt; and if every started transfer
\* reports a terminal status, a campaign that is not waiting for a password
\* reaches the final summary and the idle state, or its next password prompt,
\* unless the session stops the bot; for every queue, repeated ids included.
C35_Original ==
    /\ [][(downloads_started /\ downloads_started') => built' = built]_vars
    /\ (downloads_started /\ built # << >> /\ awaiting_password_channel_id = None)
          ~> \/ ~downloads_started /\ nsent["summary"] = 1
             \/ awaiting_password_channel_id # None
             \/ ~running

\* The bot record of the current state, run by the code of the other file.
AsTT(s) == [s EXCEPT !.program = "tt_downloader_bot.py"]

\* A message to the bot of downie.py and one to the bot of
\* tt_downloader_bot.py are the same input once their texts are classified:
\* same kind, sender and addressee, and the one is the start phrase, or a skip
\* word, of its program exactly when the other is of its own.
SameInput(md, mt) ==
    /\ md.type = mt.type /\ md.from = mt.from /\ md.to = mt.to /\ md.chan = mt.chan
    /\ (Lower(Strip(md.text)) = "pobierz pliki")
          <=> (Lower(Strip(mt.text)) = "download files")
    /\ (Lower(Strip(md.text)) \in SkipWordsDownie)
          <=> (Lower(Strip(mt.text)) \in {"skip", "next", ""})

C37_IdleAndActive ==
    /\ ~downloads_started =>
          /\ download_queue = << >>
          /\ current_channel_id = None
          /\ awaiting_password_channel_id = None
    /\ (download_queue # << >> \/ awaiting_password_channel_id # None) =>
          /\ downloads_started
          /\ awaiting_password_channel_id \in {None, current_channel_id}
          /\ current_channel_id # None

\* C37 witness: an active campaign waits for the password of its current
\* channel with another channel queued behind it.
C37_Witness ==
    /\ downloads_started /\ download_queue # << >>
    /\ awaiting_password_channel_id # None
    /\ awaiting_password_channel_id = current_channel_id

\* The sum of the values of a dict of numbers.
RECURSIVE SumDict(_)
SumDict(d) ==
    IF DOMAIN d = {} THEN 0
    ELSE LET k == CHOOSE x \in DOMAIN d : TRUE
         IN  d[k] + SumDict([x \in DOMAIN d \ {k} |-> d[x]])

\* Since the accepted trigger no channel id was made current twice.
NoChannelTwice == \A i, j \in DOMAIN popped : popped[i] = popped[j] => i = j

\* The failed starts of the channels started since the accepted trigger.
FailedStarts == SumDict([c \in DOMAIN attempts |-> attempts[c].failed])

\* C38 (as amended): as long as no channel id was made current twice since
\* the accepted trigger, the total equals the sum of the per-channel completed
\* counters and equals the number of completed keys minus the number of
\* failed starts; in every state the total is at least the sum of the
\* counters and at most the number of completed keys.
C38_TotalIsSum ==
    /\ SumDict(channel_completed_counts) <= total_completed_files
    /\ total_completed_files <= Cardinality(completed_downloads)
    /\ NoChannelTwice =>
          /\ total_completed_files = SumDict(channel_completed_counts)
          /\ total_completed_files = Cardinality(completed_downloads) - FailedStarts

\* C38 witness: two channels, a failed start in the first, files counted in
\* both.
C38_Witness ==
    /\ Len(popped) = 2 /\ NoChannelTwice
    /\ FailedStarts > 0
    /\ \A c \in Range(popped) : Get(channel_completed_counts, c, 0) > 0
    /\ total_completed_files >= 2

\* C38 (original): in every reachable state the total equals the sum over the
\* channels of the per-channel completed counters.
C38_Original ==
    total_completed_files = SumDict(channel_completed_counts)

\* C39 (original): when the final summary has been sent, the total it
\* reported is the sum of the pending counts of the channels started in the
\* campaign, and no transfer that was started is still without a terminal
\* event.
C39_Original ==
    (~downloads_started /\ nsent["summary"] > 0) =>
        /\ total_completed_files = SumDict(channel_pending_counts)
        /\ inflight = {}

\* C40 (original): the closed event still owed by a transfer of an earlier
\* campaign, delivered while the later campaign has a transfer of the same
\* key in flight, changes neither the counters, nor the completed set, nor the
\* queue position of the later campaign, and sends no reply.
C40_Original ==
    \A key \in lingering \cap inflight :
        LET s == OnFileTransfer(Self, FileTransferOf(key, "closed"), Env0)
        IN  /\ Campaign(s) = Campaign(Self)
            /\ s.out = << >>

====
